---- MODULE Spec2Model ----
(***************************************************************************)
(* MoleculeVisualizer: the PDB structural summarizer, in its two variants: *)
(* parse_pdb_info of the Flask viewer (static_pdb_viewer.py) and the       *)
(* inline loop of load_example_pdb of the simple viewer (simple_app.py).   *)
(*                                                                         *)
(* A text is a sequence of characters, each character a one-character      *)
(* string.  Python indexes from 0 and TLA+ from 1: line[21] is the 22nd    *)
(* character and line[22:27] the 23rd to the 27th.                         *)
(***************************************************************************)
EXTENDS Integers, Sequences, FiniteSets, TLC

VARIABLES
    pdb_content,    \* the text read from the file at hand (pdb_content in both viewers)
    pc,             \* parse_pdb_info: "call" (not yet run), "returned" or "raised"
    info,           \* the dictionary parse_pdb_info returned, NoInfo before
    simple_state,   \* simple_app.py: state.file_name, state.pdb_content, state.molecule_info
    log,            \* the results returned so far, call after call, each with its text
    request,        \* static_pdb_viewer.py: the request the server handled last
    response,       \* static_pdb_viewer.py: the response it gave to that request
    frame,          \* the locals of a handler that is between two of its statements
    state,          \* app.py: the fields of the trame state the handlers read and write
    renderer,       \* app.py: the view props the vtkRenderer holds, in the order added
    pdb_reader,     \* app.py: the vtkPDBReader: its FileName and the output of its last read
    temp            \* app.py: the files in ./temp, path to content

vtk == <<state, renderer, pdb_reader, temp>>

vars == <<pdb_content, pc, info, simple_state, log, request, response, frame,
          state, renderer, pdb_reader, temp>>

-----------------------------------------------------------------------------
(* Python's str operations, as parse_pdb_info uses them.                   *)

\* The characters str.splitlines() breaks a line at (besides the pair \r\n).
LineBoundaries ==
    {"\n", "\r", "\f", "\\v", "\\x1c", "\\x1d", "\\x1e", "\\x85", "\\u2028", "\\u2029"}

\* The characters str.strip() removes, among those of the texts modelled.
Whitespace == {" ", "\t", "\\x1f", "\\xa0"} \cup LineBoundaries

\* Mutant of splitlines: str.split("\n"), which breaks at "\n" alone and
\* leaves a "\r" before it in the line.
RECURSIVE split_at_newline(_)
split_at_newline(s) ==
    LET brk == {i \in 1..Len(s) : s[i] = "\n"}
    IN  IF brk = {} THEN <<s>>
        ELSE LET i == CHOOSE k \in brk : \A j \in brk : k <= j
             IN  <<SubSeq(s, 1, i - 1)>> \o split_at_newline(SubSeq(s, i + 1, Len(s)))

\* Mutant of splitlines: bytes.splitlines(), which breaks at "\n", "\r" and
\* "\r\n" alone.
RECURSIVE splitlines_of_bytes(_)
splitlines_of_bytes(s) ==
    IF s = <<>> THEN <<>>
    ELSE LET brk == {i \in 1..Len(s) : s[i] \in {"\n", "\r"}}
         IN  IF brk = {} THEN <<s>>
             ELSE LET i == CHOOSE k \in brk : \A j \in brk : k <= j
                      e == IF s[i] = "\r" /\ i < Len(s) /\ s[i + 1] = "\n"
                           THEN i + 1 ELSE i
                  IN  <<SubSeq(s, 1, i - 1)>> \o splitlines_of_bytes(SubSeq(s, e + 1, Len(s)))

\* str.splitlines(): the lines without their terminators; a terminator at
\* the very end of the text opens no further line.
RECURSIVE splitlines(_)
splitlines(s) ==
    IF s = <<>> THEN <<>>
    ELSE LET brk == {i \in 1..Len(s) : s[i] \in LineBoundaries}
         IN  IF brk = {} THEN <<s>>
             ELSE LET i == CHOOSE k \in brk : \A j \in brk : k <= j
                      e == IF s[i] = "\r" /\ i < Len(s) /\ s[i + 1] = "\n"
                           THEN i + 1 ELSE i
                  IN  <<SubSeq(s, 1, i - 1)>> \o splitlines(SubSeq(s, e + 1, Len(s)))

\* Mutant of startswith: the first three characters decide.
startswith_three_characters(line, prefix) ==
    /\ Len(line) >= 3
    /\ SubSeq(line, 1, 3) = SubSeq(prefix, 1, 3)

\* Mutant of startswith: the substring test "prefix in line".
startswith_anywhere(line, prefix) ==
    \E k \in 0..(Len(line) - Len(prefix)) :
        SubSeq(line, k + 1, k + Len(prefix)) = prefix

\* Mutant of startswith: compares only as many characters as both have.
startswith_common_part(line, prefix) ==
    LET n == IF Len(line) < Len(prefix) THEN Len(line) ELSE Len(prefix)
    IN  n > 0 /\ SubSeq(line, 1, n) = SubSeq(prefix, 1, n)

\* str.startswith(prefix)
startswith(line, prefix) ==
    /\ Len(line) >= Len(prefix)
    /\ SubSeq(line, 1, Len(prefix)) = prefix

\* line[lo:hi] for 0 <= lo <= hi: never raises, cut off at the end of the line.
Slice(line, lo, hi) ==
    LET last == IF hi < Len(line) THEN hi ELSE Len(line)
    IN  IF lo + 1 > last THEN <<>> ELSE SubSeq(line, lo + 1, last)

\* str.strip(): without the leading and the trailing whitespace.
strip(s) ==
    LET keep == {i \in 1..Len(s) : s[i] \notin Whitespace}
    IN  IF keep = {} THEN <<>>
        ELSE SubSeq(s, CHOOSE a \in keep : \A j \in keep : a <= j,
                       CHOOSE b \in keep : \A j \in keep : b >= j)

ATOM == <<"A", "T", "O", "M">>
HETATM == <<"H", "E", "T", "A", "T", "M">>

-----------------------------------------------------------------------------
(* parse_pdb_info.  The loop variables are one record: atoms, the set      *)
(* residues, the set chains, and exc, the exception in flight (NoExc when  *)
(* none is).                                                               *)

NoExc == "none"

\* Mutant of try_body: the residue key is the residue field alone.
try_body_key_without_chain(acc, line) ==
    LET residue_id == strip(Slice(line, 22, 27))
    IN  IF Len(line) <= 21
        THEN [acc EXCEPT !.exc = "IndexError"]
        ELSE LET chain_id == <<line[22]>>
             IN  [acc EXCEPT !.residues = @ \cup {residue_id},
                             !.chains = @ \cup {chain_id}]

\* Mutant of try_body: the residue field is read from too far left, line[17:27].
try_body_wide_slice(acc, line) ==
    LET residue_id == strip(Slice(line, 17, 27))
    IN  IF Len(line) <= 21
        THEN [acc EXCEPT !.exc = "IndexError"]
        ELSE LET chain_id == <<line[22]>>
             IN  [acc EXCEPT !.residues = @ \cup {residue_id \o chain_id},
                             !.chains = @ \cup {chain_id}]

\* Mutant of try_body: the chain identifier is read one column late, line[22].
try_body_chain_one_late(acc, line) ==
    LET residue_id == strip(Slice(line, 22, 27))
    IN  IF Len(line) <= 22
        THEN [acc EXCEPT !.exc = "IndexError"]
        ELSE LET chain_id == <<line[23]>>
             IN  [acc EXCEPT !.residues = @ \cup {residue_id \o chain_id},
                             !.chains = @ \cup {chain_id}]

\* Mutant of try_body: the residue field is read by index, so a line that
\* ends before column 27 raises.
try_body_strict_span(acc, line) ==
    LET residue_id == strip(Slice(line, 22, 27))
    IN  IF Len(line) <= 26
        THEN [acc EXCEPT !.exc = "IndexError"]
        ELSE LET chain_id == <<line[22]>>
             IN  [acc EXCEPT !.residues = @ \cup {residue_id \o chain_id},
                             !.chains = @ \cup {chain_id}]

\* Mutant of try_body: the chain id is trimmed before it goes into the key.
try_body_trimmed_chain_in_key(acc, line) ==
    LET residue_id == strip(Slice(line, 22, 27))
    IN  IF Len(line) <= 21
        THEN [acc EXCEPT !.exc = "IndexError"]
        ELSE LET chain_id == <<line[22]>>
             IN  [acc EXCEPT !.residues = @ \cup {residue_id \o strip(chain_id)},
                             !.chains = @ \cup {chain_id}]

\* Mutant of try_body: the chain id is trimmed, and a blank one names no
\* chain.
try_body_blank_chain_dropped(acc, line) ==
    LET residue_id == strip(Slice(line, 22, 27))
    IN  IF Len(line) <= 21
        THEN [acc EXCEPT !.exc = "IndexError"]
        ELSE LET chain_id == strip(<<line[22]>>)
             IN  [acc EXCEPT !.residues = @ \cup {residue_id \o <<line[22]>>},
                             !.chains = IF chain_id = <<>> THEN @ ELSE @ \cup {chain_id}]

\* The body of the try block: the slice cannot raise, line[21] raises
\* IndexError on a line of fewer than 22 characters, before either set is
\* touched.
try_body(acc, line) ==
    LET residue_id == strip(Slice(line, 22, 27))
    IN  IF Len(line) <= 21
        THEN [acc EXCEPT !.exc = "IndexError"]
        ELSE LET chain_id == <<line[22]>>
             IN  [acc EXCEPT !.residues = @ \cup {residue_id \o chain_id},
                             !.chains = @ \cup {chain_id}]

\* Mutant of loop_body: the try block runs for every line, the prefix test
\* guarding the atom count alone.
loop_body_try_for_every_line(acc, line) ==
    LET counted == IF startswith(line, ATOM) \/ startswith(line, HETATM)
                   THEN [acc EXCEPT !.atoms = @ + 1] ELSE acc
        tried == try_body(counted, line)
    IN  IF tried.exc # NoExc THEN [tried EXCEPT !.exc = NoExc] ELSE tried

\* Mutant of loop_body: HETATM records are not recognised.
loop_body_atom_only(acc, line) ==
    IF startswith(line, ATOM)
    THEN LET counted == [acc EXCEPT !.atoms = @ + 1]
             tried == try_body(counted, line)
         IN  IF tried.exc # NoExc THEN [tried EXCEPT !.exc = NoExc] ELSE tried
    ELSE acc

\* Mutant of loop_body: atoms += 1 stands inside the try block, after the
\* column reads.
loop_body_count_after_reads(acc, line) ==
    IF startswith(line, ATOM) \/ startswith(line, HETATM)
    THEN LET tried == try_body(acc, line)
         IN  IF tried.exc # NoExc THEN [tried EXCEPT !.exc = NoExc]
             ELSE [tried EXCEPT !.atoms = @ + 1]
    ELSE acc

\* Mutant of loop_body: no try/except around the column reads.
loop_body_no_except(acc, line) ==
    IF startswith(line, ATOM) \/ startswith(line, HETATM)
    THEN try_body([acc EXCEPT !.atoms = @ + 1], line)
    ELSE acc

\* One pass of "for line in lines": the prefix test, atoms += 1, then the
\* try block, whose bare "except: pass" drops any exception.
loop_body(acc, line) ==
    IF startswith(line, ATOM) \/ startswith(line, HETATM)
    THEN LET counted == [acc EXCEPT !.atoms = @ + 1]
             tried == try_body(counted, line)
         IN  IF tried.exc # NoExc THEN [tried EXCEPT !.exc = NoExc] ELSE tried
    ELSE acc

\* Mutant of for_loop: the loop ends at a line that begins with END.
RECURSIVE for_loop_until_end_record(_, _, _)
for_loop_until_end_record(acc, lines, i) ==
    IF i > Len(lines) \/ acc.exc # NoExc \/ startswith(lines[i], <<"E", "N", "D">>)
    THEN acc
    ELSE for_loop_until_end_record(loop_body(acc, lines[i]), lines, i + 1)

\* The for loop from its i-th line on; an exception that escapes the body
\* ends the loop.
RECURSIVE for_loop(_, _, _)
for_loop(acc, lines, i) ==
    IF i > Len(lines) \/ acc.exc # NoExc THEN acc
    ELSE for_loop(loop_body(acc, lines[i]), lines, i + 1)

\* Mutant of parse_pdb_info: atoms is a module-level counter, not reset by a call.
parse_pdb_info_global_counter(content) ==
    LET lines == splitlines(content)
        before == IF info.atoms > 0 THEN info.atoms ELSE 0
        final == for_loop([atoms |-> before, residues |-> {}, chains |-> {}, exc |-> NoExc],
                          lines, 1)
    IN  [exc |-> final.exc,
         value |-> [atoms |-> final.atoms,
                    residues |-> Cardinality(final.residues),
                    chains |-> Cardinality(final.chains)]]

\* parse_pdb_info(pdb_content): exc is the exception the call ends with
\* (NoExc on a normal return) and value the dictionary it returns.
parse_pdb_info(content) ==
    LET lines == splitlines(content)
        final == for_loop([atoms |-> 0, residues |-> {}, chains |-> {}, exc |-> NoExc],
                          lines, 1)
    IN  [exc |-> final.exc,
         value |-> [atoms |-> final.atoms,
                    residues |-> Cardinality(final.residues),
                    chains |-> Cardinality(final.chains)]]

-----------------------------------------------------------------------------
(* The texts the summarizer is run on: up to MaxLines lines, each a PDB    *)
(* record laid out in its columns (record name 1-6, chain identifier 22,   *)
(* residue sequence field 23-27), whole or cut short, or a line of another *)
(* kind.                                                                   *)

MaxLines == 2

Rep(c, n) == [i \in 1..n |-> c]
Take(s, n) == SubSeq(s, 1, n)

\* A 28-character record: name (6), columns 7-21, chain, residue field (5)
\* and one more character.
Rec(name, fill, chain, resseq, last) ==
    name \o Rep(fill, 15) \o <<chain>> \o resseq \o <<last>>

ATOM__ == ATOM \o <<" ", " ">>
Res1 == <<" ", " ", " ", " ", "1">>
Res2 == <<" ", " ", " ", "2", " ">>

WholeRecords ==
    { Rec(ATOM__, "x", "A", Res1, "N"),
      Rec(ATOM__, "y", "A", Res1, "C"),
      Rec(ATOM__, "x", "B", Res1, "N"),
      Rec(HETATM, "x", "A", Res1, "N"),
      Rec(ATOM__, "x", " ", Res1, "N"),
      Rec(ATOM__, "x", "A", Res2, "N"),
      Rec(<<"A", "T", "O", "M", "I", "C">>, "x", "B", Res2, "N"),
      Rec(<<"H", "E", "A", "D", "E", "R">>, "x", "B", Res2, "N"),
      Rec(<<" ", "A", "T", "O", "M", " ">>, "x", "B", Res2, "N") }

CutRecords ==
    { Take(Rec(ATOM__, "x", "A", Res1, "N"), 4),
      Take(Rec(HETATM, "x", "A", Res1, "N"), 6),
      Take(Rec(ATOM__, "x", "A", Res1, "N"), 21),
      Take(Rec(ATOM__, "x", "B", Res1, "N"), 22),
      Take(Rec(ATOM__, "x", "A", Res2, "N"), 26) }

OtherLines ==
    { <<>>,
      <<"E", "N", "D">>,
      <<"A", "T", "O">>,
      <<"H", "E", "T", "A", "T">>,
      <<"R", "E", "M", "A", "R", "K", " ">> \o ATOM }

Lines == WholeRecords \cup CutRecords \cup OtherLines

Terminators == { <<"\n">>, <<"\r", "\n">> }

\* The lines ls, each but the last followed by the terminator t, the last
\* one too when trailing.
RECURSIVE Join(_, _, _)
Join(ls, t, trailing) ==
    IF ls = <<>> THEN <<>>
    ELSE IF Len(ls) = 1 THEN (IF trailing THEN ls[1] \o t ELSE ls[1])
    ELSE ls[1] \o t \o Join(Tail(ls), t, trailing)

Texts ==
    { Join(ls, t, trailing) :
        ls \in UNION { [1..n -> Lines] : n \in 0..MaxLines },
        t \in Terminators, trailing \in BOOLEAN }

-----------------------------------------------------------------------------
(* simple_app.py: load_example_pdb counts with its own copy of the loop.   *)

simple_try_body(acc, line) ==
    LET residue_id == strip(Slice(line, 22, 27))
    IN  IF Len(line) <= 21
        THEN [acc EXCEPT !.exc = "IndexError"]
        ELSE LET chain_id == <<line[22]>>
             IN  [acc EXCEPT !.residues = @ \cup {residue_id \o chain_id},
                             !.chains = @ \cup {chain_id}]

\* Mutant of simple_loop_body: atoms += 1 is the last statement of the try
\* block, after the two reads.
simple_loop_body_count_in_try(acc, line) ==
    IF startswith(line, ATOM) \/ startswith(line, HETATM)
    THEN LET tried == simple_try_body(acc, line)
         IN  IF tried.exc # NoExc THEN acc ELSE [tried EXCEPT !.atoms = @ + 1]
    ELSE acc

\* The body of the simple viewer's for loop (lines 39-47).
simple_loop_body(acc, line) ==
    IF startswith(line, ATOM) \/ startswith(line, HETATM)
    THEN LET counted == [acc EXCEPT !.atoms = @ + 1]
             tried == simple_try_body(counted, line)
         IN  IF tried.exc # NoExc THEN [tried EXCEPT !.exc = NoExc] ELSE tried
    ELSE acc

RECURSIVE simple_for_loop(_, _, _)
simple_for_loop(acc, lines, i) ==
    IF i > Len(lines) \/ acc.exc # NoExc THEN acc
    ELSE simple_for_loop(simple_loop_body(acc, lines[i]), lines, i + 1)

\* Mutant of load_example_pdb: the counts go on from those the state holds.
load_example_pdb_counts_carried_over(st, content) ==
    LET lines == splitlines(content)
        final == simple_for_loop(
                     [atoms |-> st.molecule_info.atoms, residues |-> {}, chains |-> {},
                      exc |-> NoExc],
                     lines, 1)
        read == [st EXCEPT !.file_name = "1cbs.pdb", !.pdb_content = content]
    IN  IF final.exc # NoExc THEN read
        ELSE [read EXCEPT !.molecule_info =
                  [atoms |-> final.atoms,
                   residues |-> Cardinality(final.residues),
                   chains |-> Cardinality(final.chains)]]

\* load_example_pdb once the example file was read as content: the state
\* it leaves.  An exception out of the loop would leave molecule_info as
\* it was, the two assignments before the loop done.
load_example_pdb(st, content) ==
    LET lines == splitlines(content)
        final == simple_for_loop(
                     [atoms |-> 0, residues |-> {}, chains |-> {}, exc |-> NoExc],
                     lines, 1)
        read == [st EXCEPT !.file_name = "1cbs.pdb", !.pdb_content = content]
    IN  IF final.exc # NoExc THEN read
        ELSE [read EXCEPT !.molecule_info =
                  [atoms |-> final.atoms,
                   residues |-> Cardinality(final.residues),
                   chains |-> Cardinality(final.chains)]]

-----------------------------------------------------------------------------
\* The VTK viewer (app.py) as the module leaves it once loaded: nothing
\* uploaded, no active file, an empty renderer, a reader without a file.

None == "None"

EmptyDict == <<>>

NoOutput == [atom_types |-> <<>>, residue |-> <<>>, bonds |-> 0]

VtkSetup ==
    /\ state = [view_style |-> "ball_stick",
                color_mapping |-> "atom",
                molecule_info |-> EmptyDict,
                hover_info |-> "Hover over atoms to see details",
                pdb_files |-> <<>>,
                active_file |-> None]
    /\ renderer = <<>>
    /\ pdb_reader = [FileName |-> None, modified |-> FALSE, output |-> NoOutput]
    /\ temp = <<>>

-----------------------------------------------------------------------------
NoInfo == [atoms |-> -1, residues |-> -1, chains |-> -1]

\* Before the first request there is no request, no response and no handler
\* under way.
NoRequest == [n |-> 0, path |-> "none"]
NoResponse == [status |-> 0, body |-> [error |-> "none"]]
NoFrame == [at |-> "idle"]

Init ==
    /\ VtkSetup
    /\ pdb_content \in Texts
    /\ pc = "call"
    /\ info = NoInfo
    /\ simple_state = [file_name |-> "", pdb_content |-> <<>>,
                       molecule_info |-> [atoms |-> 0, residues |-> 0, chains |-> 0]]
    /\ log = <<>>
    /\ request = NoRequest
    /\ response = NoResponse
    /\ frame = NoFrame

\* One call of parse_pdb_info on pdb_content.
Summarize ==
    /\ pc = "call"
    /\ LET r == parse_pdb_info(pdb_content)
       IN  IF r.exc = NoExc
           THEN pc' = "returned" /\ info' = r.value
           ELSE pc' = "raised" /\ info' = NoInfo
    /\ UNCHANGED <<pdb_content, simple_state, log, request, response, frame>>
    /\ UNCHANGED vtk

\* The simple viewer's "Load Example PDB" button: pdb_content is what the
\* example file holds when it exists; without the file nothing changes.
LoadExamplePdb ==
    /\ \E exists \in BOOLEAN :
          simple_state' = IF exists THEN load_example_pdb(simple_state, pdb_content)
                          ELSE simple_state
    /\ UNCHANGED <<pdb_content, pc, info, log, request, response, frame>>
    /\ UNCHANGED vtk

Next == Summarize \/ LoadExamplePdb

Spec == Init /\ [][Next]_vars

-----------------------------------------------------------------------------
\* The same two operations on texts that hold one of the other characters
\* str.splitlines() knows, or a tab, inside a record or between a remark and
\* a record.

WithChar(line, k, c) == [i \in 1..Len(line) |-> IF i = k THEN c ELSE line[i]]

CharTexts ==
    LET rec == Rec(ATOM__, "x", "A", Res1, "N")
        het == Rec(HETATM, "x", "B", Res2, "N")
        remark == <<"R", "E", "M", "A", "R", "K">>
    IN  UNION { { WithChar(rec, 3, c), WithChar(rec, 10, c), WithChar(rec, 22, c),
                  WithChar(rec, 25, c), WithChar(het, 7, c) \o <<"\n">> \o rec,
                  remark \o <<c>> \o rec, rec \o <<c>>, rec \o <<c, "\n">> \o het }
              : c \in LineBoundaries \cup {"\t"} }

InitChars ==
    /\ VtkSetup
    /\ pdb_content \in CharTexts
    /\ pc = "call"
    /\ info = NoInfo
    /\ simple_state = [file_name |-> "", pdb_content |-> <<>>,
                       molecule_info |-> [atoms |-> 0, residues |-> 0, chains |-> 0]]
    /\ log = <<>>
    /\ request = NoRequest
    /\ response = NoResponse
    /\ frame = NoFrame

SpecChars == InitChars /\ [][Next]_vars

-----------------------------------------------------------------------------
\* The same two operations on records whose residue fields and chain ids
\* share characters: insertion codes, blank chains, digits as chain ids.

KeyLines ==
    { Rec(ATOM__, "x", chain, resseq, "N") :
        chain \in {"A", " ", "1"},
        resseq \in { <<" ", " ", " ", " ", "1">>, <<" ", " ", " ", "1", "A">>,
                     <<" ", " ", " ", "1", "1">>, <<" ", " ", " ", "1", " ">> } }

KeyTexts ==
    { Join(ls, <<"\n">>, TRUE) : ls \in UNION { [1..n -> KeyLines] : n \in 0..MaxLines } }

InitKeys ==
    /\ VtkSetup
    /\ pdb_content \in KeyTexts
    /\ pc = "call"
    /\ info = NoInfo
    /\ simple_state = [file_name |-> "", pdb_content |-> <<>>,
                       molecule_info |-> [atoms |-> 0, residues |-> 0, chains |-> 0]]
    /\ log = <<>>
    /\ request = NoRequest
    /\ response = NoResponse
    /\ frame = NoFrame

SpecKeys == InitKeys /\ [][Next]_vars

-----------------------------------------------------------------------------
(* A server that is called again and again: up to MaxCalls calls, of       *)
(* parse_pdb_info on a text or of load_example_pdb on what the example     *)
(* file then holds, each result kept in log with the text it is for.       *)

MaxCalls == 3

CallTexts ==
    { <<>>,
      Join(<<Rec(ATOM__, "x", "A", Res1, "N")>>, <<"\n">>, TRUE),
      Join(<<Rec(ATOM__, "x", "A", Res1, "N"), Rec(HETATM, "x", "B", Res1, "N")>>,
           <<"\n">>, TRUE),
      Join(<<Take(Rec(ATOM__, "x", "A", Res1, "N"), 21), <<"E", "N", "D">> >>,
           <<"\r", "\n">>, FALSE),
      Join(<<Rec(<<"H", "E", "A", "D", "E", "R">>, "x", "B", Res2, "N")>>, <<"\n">>, FALSE) }

InitCalls ==
    /\ VtkSetup
    /\ pdb_content = <<>>
    /\ pc = "call"
    /\ info = NoInfo
    /\ simple_state = [file_name |-> "", pdb_content |-> <<>>,
                       molecule_info |-> [atoms |-> 0, residues |-> 0, chains |-> 0]]
    /\ log = <<>>
    /\ request = NoRequest
    /\ response = NoResponse
    /\ frame = NoFrame

\* A further call of parse_pdb_info, on any text.
Call ==
    /\ Len(log) < MaxCalls
    /\ \E text \in CallTexts :
          LET r == parse_pdb_info(text)
          IN  /\ pdb_content' = text
              /\ IF r.exc = NoExc
                 THEN pc' = "returned" /\ info' = r.value
                 ELSE pc' = "raised" /\ info' = NoInfo
              /\ log' = Append(log, [by |-> "parse_pdb_info", text |-> text,
                                     value |-> IF r.exc = NoExc THEN r.value ELSE NoInfo])
    /\ UNCHANGED <<simple_state, request, response, frame>>
    /\ UNCHANGED vtk

\* A further click on "Load Example PDB", the example file holding any text.
Reload ==
    /\ Len(log) < MaxCalls
    /\ \E text \in CallTexts :
          /\ pdb_content' = text
          /\ simple_state' = load_example_pdb(simple_state, text)
          /\ log' = Append(log, [by |-> "load_example_pdb", text |-> text,
                                 value |-> simple_state'.molecule_info])
    /\ UNCHANGED <<pc, info, request, response, frame>>
    /\ UNCHANGED vtk

NextCalls == Call \/ Reload

SpecCalls == InitCalls /\ [][NextCalls]_vars

-----------------------------------------------------------------------------
\* static_pdb_viewer.py, the Flask routes /upload_pdb and /load_example.

\* The characters of the bodies of the model, by code point.
chr ==
    (10 :> "\n") @@ (13 :> "\r") @@ (32 :> " ") @@ (49 :> "1") @@
    (65 :> "A") @@ (66 :> "B") @@ (68 :> "D") @@ (69 :> "E") @@ (72 :> "H") @@
    (75 :> "K") @@ (77 :> "M") @@ (78 :> "N") @@ (79 :> "O") @@ (82 :> "R") @@
    (84 :> "T") @@ (120 :> "x") @@ (233 :> "U+00E9")

\* str.encode("utf-8") of a text of characters below 128: one byte each.
encode(text) ==
    [i \in 1..Len(text) |-> CHOOSE k \in DOMAIN chr : k < 128 /\ chr[k] = text[i]]

\* bytes.decode("utf-8"): one byte below 128 is one character; a byte from
\* 194 to 223 and the continuation byte from 128 to 191 after it are one
\* character; a continuation byte that follows no such byte, such a byte
\* without its continuation, 192, 193 and 245 to 255 raise
\* UnicodeDecodeError.  (The bodies of the model hold no lead byte of a longer
\* sequence, 224 to 244.)
decode(bytes) ==
    LET n == Len(bytes)
        lead(i) == bytes[i] >= 194 /\ bytes[i] <= 223
        continuation(i) == bytes[i] >= 128 /\ bytes[i] <= 191
        valid(i) ==
            \/ bytes[i] < 128
            \/ lead(i) /\ i < n /\ continuation(i + 1)
            \/ continuation(i) /\ i > 1 /\ lead(i - 1)
        starts == SelectSeq([i \in 1..n |-> i], LAMBDA i : ~continuation(i))
    IN  IF \E i \in 1..n : ~valid(i)
        THEN [exc |-> "UnicodeDecodeError", value |-> <<>>]
        ELSE [exc |-> NoExc,
              value |-> [k \in 1..Len(starts) |->
                           LET i == starts[k]
                           IN  IF bytes[i] < 128 THEN chr[bytes[i]]
                               ELSE chr[(bytes[i] - 192) * 64 + (bytes[i + 1] - 128)]]]

\* str.lower() on the letters of the file names of the model.
lower(s) ==
    LET low == ("A" :> "a") @@ ("B" :> "b") @@ ("D" :> "d") @@ ("P" :> "p")
    IN  [i \in 1..Len(s) |-> IF s[i] \in DOMAIN low THEN low[s[i]] ELSE s[i]]

\* str.endswith(suffix)
endswith(s, suffix) ==
    /\ Len(s) >= Len(suffix)
    /\ SubSeq(s, Len(s) - Len(suffix) + 1, Len(s)) = suffix

\* sub in s
contains(s, sub) ==
    \E i \in 1..(Len(s) - Len(sub) + 1) : SubSeq(s, i, i + Len(sub) - 1) = sub

\* jsonify({"error": message}), status
error_response(status, message) == [status |-> status, body |-> [error |-> message]]

\* What Flask answers when the view function raises: 500.
internal_server_error == error_response(500, "Internal Server Error")

\* file.filename.lower().endswith('.pdb')
extension_allowed(filename) ==
    endswith(lower(filename), <<".", "p", "d", "b">>)

\* Mutant of with_filename: the file name goes next to the dictionary, which
\* stays as parse_pdb_info returned it.
with_filename_left_out(d, filename) == d

\* info["filename"] = ...: the dictionary parse_pdb_info returned gets a
\* fourth key.
with_filename(d, filename) ==
    [k \in DOMAIN d \cup {"filename"} |-> IF k = "filename" THEN filename ELSE d[k]]

\* Mutant of summarize_and_respond: a file without a counted atom is
\* answered as an invalid file.
summarize_and_respond_atoms_required(filename, content) ==
    LET r == parse_pdb_info(content)
    IN  [calls |-> <<[by |-> "parse_pdb_info", text |-> content,
                      value |-> IF r.exc = NoExc THEN r.value ELSE NoInfo]>>,
         response |->
            IF r.exc # NoExc THEN internal_server_error
            ELSE IF r.value.atoms = 0
                 THEN error_response(400, "Invalid PDB file format (no ATOM or HETATM entries)")
                 ELSE [status |-> 200,
                       body |-> [info |-> with_filename(r.value, filename),
                                 content |-> content]]]

\* The end of both routes: parse_pdb_info(pdb_content), the file name put
\* into its dictionary, and the dictionary and the text as the response.
\* calls is the call of parse_pdb_info made on the way.
summarize_and_respond(filename, content) ==
    LET r == parse_pdb_info(content)
    IN  [calls |-> <<[by |-> "parse_pdb_info", text |-> content,
                      value |-> IF r.exc = NoExc THEN r.value ELSE NoInfo]>>,
         response |->
            IF r.exc # NoExc THEN internal_server_error
            ELSE [status |-> 200,
                  body |-> [info |-> with_filename(r.value, filename),
                            content |-> content]]]

\* Mutant of upload_pdb: the file is read and decoded as soon as it is known
\* to be there, before its name is looked at.
upload_pdb_decode_first(req) ==
    IF ~req.has_file
    THEN [calls |-> <<>>, response |-> error_response(400, "No file part in the request")]
    ELSE LET decoded == decode(req.data)
         IN  IF decoded.exc # NoExc
             THEN [calls |-> <<>>, response |-> internal_server_error]
             ELSE IF req.filename = <<>>
             THEN [calls |-> <<>>, response |-> error_response(400, "No file selected")]
             ELSE IF ~extension_allowed(req.filename)
             THEN [calls |-> <<>>,
                   response |-> error_response(400, "Not a PDB file (must end with .pdb)")]
             ELSE IF ~contains(decoded.value, ATOM) /\ ~contains(decoded.value, HETATM)
             THEN [calls |-> <<>>,
                   response |-> error_response(400,
                       "Invalid PDB file format (no ATOM or HETATM entries)")]
             ELSE summarize_and_respond(req.filename, decoded.value)

\* Mutant of upload_pdb: the text goes to parse_pdb_info unchecked.
upload_pdb_content_unchecked(req) ==
    IF ~req.has_file
    THEN [calls |-> <<>>, response |-> error_response(400, "No file part in the request")]
    ELSE IF req.filename = <<>>
    THEN [calls |-> <<>>, response |-> error_response(400, "No file selected")]
    ELSE IF ~extension_allowed(req.filename)
    THEN [calls |-> <<>>, response |-> error_response(400, "Not a PDB file (must end with .pdb)")]
    ELSE LET decoded == decode(req.data)
         IN  IF decoded.exc # NoExc
             THEN [calls |-> <<>>, response |-> internal_server_error]
             ELSE summarize_and_respond(req.filename, decoded.value)

\* upload_pdb: the checks in the order of the code, each ending the request
\* with its message and status 400; decode raising ends it with Flask's 500.
upload_pdb(req) ==
    IF ~req.has_file
    THEN [calls |-> <<>>, response |-> error_response(400, "No file part in the request")]
    ELSE IF req.filename = <<>>
    THEN [calls |-> <<>>, response |-> error_response(400, "No file selected")]
    ELSE IF ~extension_allowed(req.filename)
    THEN [calls |-> <<>>, response |-> error_response(400, "Not a PDB file (must end with .pdb)")]
    ELSE LET decoded == decode(req.data)
         IN  IF decoded.exc # NoExc
             THEN [calls |-> <<>>, response |-> internal_server_error]
             ELSE LET content == decoded.value
                  IN  IF ~contains(content, ATOM) /\ ~contains(content, HETATM)
                      THEN [calls |-> <<>>,
                            response |-> error_response(400,
                                "Invalid PDB file format (no ATOM or HETATM entries)")]
                      ELSE summarize_and_respond(req.filename, content)

\* f.read() of a file opened with open(path, 'r'): "\r\n" and "\r" are read
\* as "\n".
f_read(text) ==
    LET kept == SelectSeq([i \in 1..Len(text) |-> [c |-> text[i], i |-> i]],
                          LAMBDA e : ~(e.c = "\r" /\ e.i < Len(text) /\ text[e.i + 1] = "\n"))
    IN  [k \in 1..Len(kept) |-> IF kept[k].c = "\r" THEN "\n" ELSE kept[k].c]

\* load_example: file is static/examples/1cbs.pdb as the request finds it,
\* file.text the text it holds.
load_example(file) ==
    IF file.exists
    THEN summarize_and_respond(<<"1", "c", "b", "s", ".", "p", "d", "b">>, f_read(file.text))
    ELSE [calls |-> <<>>, response |-> error_response(404, "Example file not found")]

MaxRequests == 2

\* The file names and the bodies of the uploads of the model.
FileNames ==
    { <<>>,
      <<"a", ".", "p", "d", "b">>,
      <<"A", ".", "P", "D", "B">>,
      <<".", "p", "d", "b">>,
      <<"a", ".", "p", "d">>,
      <<"p", "d", "b", ".", "a">> }

BodyTexts ==
    { <<>>,
      <<"H", "E", "A", "D", "E", "R">>,
      <<"A", "T", "O", "\n", "M">>,
      <<"R", "E", "M", "A", "R", "K", " ">> \o ATOM,
      <<"E", "N", "D", " ">> \o HETATM,
      <<"U+00E9">> \o ATOM,
      Join(<<Rec(ATOM__, "x", "A", Res1, "N")>>, <<"\n">>, TRUE),
      Join(<<Rec(HETATM, "x", "A", Res1, "N"), Rec(HETATM, "x", "B", Res1, "N")>>,
           <<"\r", "\n">>, TRUE) }

Bodies ==
    {encode(t) : t \in BodyTexts \ {<<"U+00E9">> \o ATOM}}
        \cup { <<195, 169>> \o encode(ATOM),
               <<255>>,
               encode(ATOM) \o <<128>>,
               encode(Rec(ATOM__, "x", "A", Res1, "N")) \o <<195>> }

Uploads ==
    { [path |-> "/upload_pdb", has_file |-> FALSE, filename |-> <<>>, data |-> <<>>] }
        \cup [path : {"/upload_pdb"}, has_file : {TRUE}, filename : FileNames, data : Bodies]

\* static/examples/1cbs.pdb: missing, or holding any of the texts.
ExampleFiles ==
    { [exists |-> FALSE, text |-> <<>>] }
        \cup [exists : {TRUE}, text : BodyTexts]

InitWeb ==
    /\ VtkSetup
    /\ pdb_content = <<>>
    /\ pc = "call"
    /\ info = NoInfo
    /\ simple_state = [file_name |-> "", pdb_content |-> <<>>,
                       molecule_info |-> [atoms |-> 0, residues |-> 0, chains |-> 0]]
    /\ log = <<>>
    /\ request = NoRequest
    /\ response = NoResponse
    /\ frame = NoFrame

\* POST /upload_pdb
UploadPdb ==
    /\ request.n < MaxRequests
    /\ \E req \in Uploads :
          LET r == upload_pdb(req)
          IN  /\ request' = [n |-> request.n + 1, path |-> req.path, upload |-> req]
              /\ response' = r.response
              /\ log' = log \o r.calls
    /\ UNCHANGED <<pdb_content, pc, info, simple_state, frame>>
    /\ UNCHANGED vtk

\* GET /load_example
LoadExample ==
    /\ request.n < MaxRequests
    /\ \E file \in ExampleFiles :
          LET r == load_example(file)
          IN  /\ request' = [n |-> request.n + 1, path |-> "/load_example", file |-> file]
              /\ response' = r.response
              /\ log' = log \o r.calls
    /\ UNCHANGED <<pdb_content, pc, info, simple_state, frame>>
    /\ UNCHANGED vtk

NextWeb == UploadPdb \/ LoadExample

SpecWeb == InitWeb /\ [][NextWeb]_vars

-----------------------------------------------------------------------------
\* The simple viewer alone: click after click on "Load Example PDB", the
\* example file missing or holding any of the texts at each click.  The log
\* keeps every call, found telling whether the file was there.

PressLoadExample ==
    /\ Len(log) < MaxCalls
    /\ \E file \in [exists : BOOLEAN, text : CallTexts] :
          /\ simple_state' = IF file.exists
                             THEN load_example_pdb(simple_state, f_read(file.text))
                             ELSE simple_state
          /\ log' = Append(log, [by |-> "load_example_pdb", found |-> file.exists,
                                 text |-> file.text,
                                 value |-> simple_state'.molecule_info])
    /\ UNCHANGED <<pdb_content, pc, info, request, response, frame>>
    /\ UNCHANGED vtk

NextSimple == PressLoadExample

SpecSimple == InitCalls /\ [][NextSimple]_vars

-----------------------------------------------------------------------------
\* The two handlers that hold a summary record, statement by statement from
\* the end of the parse on: load_example_pdb of simple_app.py and upload_pdb
\* of static_pdb_viewer.py.  One handler runs at a time; frame holds its
\* locals and the line it is at.

\* The uploads of the statement-by-statement runs: one without a file part,
\* one with a wrong extension, and three that reach parse_pdb_info.
StepUploads ==
    { u \in Uploads :
        \/ ~u.has_file
        \/ /\ u.filename = <<"a", ".", "p", "d">>
           /\ u.data = <<>>
        \/ /\ u.filename = <<"A", ".", "P", "D", "B">>
           /\ u.data \in { encode(<<"R", "E", "M", "A", "R", "K", " ">> \o ATOM),
                            <<195, 169>> \o encode(ATOM),
                            encode(Join(<<Rec(ATOM__, "x", "A", Res1, "N")>>, <<"\n">>, TRUE)) } }

InitSteps ==
    /\ VtkSetup
    /\ pdb_content = <<>>
    /\ pc = "call"
    /\ info = NoInfo
    /\ simple_state = [file_name |-> "", pdb_content |-> <<>>,
                       molecule_info |-> [atoms |-> 0, residues |-> 0, chains |-> 0]]
    /\ log = <<>>
    /\ request = NoRequest
    /\ response = NoResponse
    /\ frame = NoFrame

\* simple_app.py lines 21-47: the file is read, file_name and pdb_content are
\* set and the loop has run; the counts are in the locals.
LoadExamplePdbLoop ==
    /\ frame = NoFrame
    /\ Len(log) < MaxCalls
    /\ \E text \in CallTexts :
          LET final == simple_for_loop(
                           [atoms |-> 0, residues |-> {}, chains |-> {}, exc |-> NoExc],
                           splitlines(text), 1)
              counts == [atoms |-> final.atoms,
                         residues |-> Cardinality(final.residues),
                         chains |-> Cardinality(final.chains)]
          IN  /\ pdb_content' = text
              /\ simple_state' = [simple_state EXCEPT !.file_name = "1cbs.pdb",
                                                      !.pdb_content = text]
              /\ IF final.exc = NoExc
                 THEN /\ frame' = [at |-> "line49", handler |-> "load_example_pdb",
                                   locals |-> counts]
                      /\ log' = Append(log, [by |-> "load_example_pdb", text |-> text,
                                             value |-> counts])
                 ELSE UNCHANGED <<frame, log>>
    /\ UNCHANGED <<pc, info, request, response>>
    /\ UNCHANGED vtk

\* state.molecule_info["atoms"] = atoms
Line49 ==
    /\ frame.at = "line49"
    /\ simple_state' = [simple_state EXCEPT !.molecule_info.atoms = frame.locals.atoms]
    /\ frame' = [frame EXCEPT !.at = "line50"]
    /\ UNCHANGED <<pdb_content, pc, info, log, request, response>>
    /\ UNCHANGED vtk

\* state.molecule_info["residues"] = len(residues)
Line50 ==
    /\ frame.at = "line50"
    /\ simple_state' = [simple_state EXCEPT !.molecule_info.residues = frame.locals.residues]
    /\ frame' = [frame EXCEPT !.at = "line51"]
    /\ UNCHANGED <<pdb_content, pc, info, log, request, response>>
    /\ UNCHANGED vtk

\* state.molecule_info["chains"] = len(chains), and the handler returns.
Line51 ==
    /\ frame.at = "line51"
    /\ simple_state' = [simple_state EXCEPT !.molecule_info.chains = frame.locals.chains]
    /\ frame' = NoFrame
    /\ UNCHANGED <<pdb_content, pc, info, log, request, response>>
    /\ UNCHANGED vtk

\* static_pdb_viewer.py lines 61-86: a request that fails a check is answered
\* at once; otherwise info is the dictionary parse_pdb_info returned.
UploadPdbParse ==
    /\ frame = NoFrame
    /\ request.n < MaxRequests
    /\ \E req \in StepUploads :
          LET r == upload_pdb(req)
          IN  /\ request' = [n |-> request.n + 1, path |-> req.path, upload |-> req]
              /\ IF r.calls = <<>> \/ r.response.status # 200
                 THEN /\ response' = r.response
                      /\ log' = log \o r.calls
                      /\ frame' = NoFrame
                 ELSE /\ response' = NoResponse
                      /\ log' = log \o r.calls
                      /\ frame' = [at |-> "line87", handler |-> "upload_pdb",
                                   locals |-> [info |-> r.calls[1].value,
                                               filename |-> req.filename,
                                               pdb_content |-> r.calls[1].text]]
    /\ UNCHANGED <<pdb_content, pc, info, simple_state>>
    /\ UNCHANGED vtk

\* info["filename"] = file.filename
Line87 ==
    /\ frame.at = "line87"
    /\ frame' = [frame EXCEPT !.at = "line91",
                              !.locals.info = with_filename(@, frame.locals.filename)]
    /\ UNCHANGED <<pdb_content, pc, info, simple_state, log, request, response>>
    /\ UNCHANGED vtk

\* return jsonify({"info": info, "content": pdb_content})
Line91 ==
    /\ frame.at = "line91"
    /\ response' = [status |-> 200,
                    body |-> [info |-> frame.locals.info,
                              content |-> frame.locals.pdb_content]]
    /\ frame' = NoFrame
    /\ UNCHANGED <<pdb_content, pc, info, simple_state, log, request>>
    /\ UNCHANGED vtk

NextSteps ==
    \/ LoadExamplePdbLoop \/ Line49 \/ Line50 \/ Line51
    \/ UploadPdbParse \/ Line87 \/ Line91

SpecSteps == InitSteps /\ [][NextSteps]_vars

-----------------------------------------------------------------------------
\* Calls of parse_pdb_info that run at the same time, as the requests of the
\* Flask server do, one thread each: frame[t] holds the locals of thread t,
\* and a step is one statement or one turn of the loop.  The simple viewer's
\* callback runs between their steps, from start to end as trame runs it.

Threads == {1, 2}

Running == {t \in Threads : frame[t] # NoFrame}

InitThreads ==
    /\ VtkSetup
    /\ pdb_content = <<>>
    /\ pc = "call"
    /\ info = NoInfo
    /\ simple_state = [file_name |-> "", pdb_content |-> <<>>,
                       molecule_info |-> [atoms |-> 0, residues |-> 0, chains |-> 0]]
    /\ log = <<>>
    /\ request = NoRequest
    /\ response = NoResponse
    /\ frame = [t \in Threads |-> NoFrame]

\* Lines 8-15: the call, lines = pdb_content.splitlines(), atoms = 0 and the
\* two empty sets.
Enter(t) ==
    /\ frame[t] = NoFrame
    /\ Len(log) + Cardinality(Running) < MaxCalls
    /\ \E text \in CallTexts :
          frame' = [frame EXCEPT ![t] =
                       [at |-> "line17", pdb_content |-> text,
                        lines |-> splitlines(text), i |-> 1,
                        acc |-> [atoms |-> 0, residues |-> {}, chains |-> {},
                                 exc |-> NoExc]]]
    /\ UNCHANGED <<pdb_content, pc, info, simple_state, log, request, response>>
    /\ UNCHANGED vtk

\* Mutant of Iterate: atoms, residues and chains are module-level, one set of
\* them for all the calls under way.
Iterate_module_level_counters(t) ==
    /\ frame[t] # NoFrame
    /\ frame[t].at = "line17"
    /\ frame[t].i <= Len(frame[t].lines)
    /\ frame[t].acc.exc = NoExc
    /\ LET acc == loop_body(frame[t].acc, frame[t].lines[frame[t].i])
       IN  frame' = [u \in Threads |->
                       IF u = t THEN [frame[t] EXCEPT !.acc = acc, !.i = @ + 1]
                       ELSE IF frame[u] # NoFrame THEN [frame[u] EXCEPT !.acc = acc]
                       ELSE frame[u]]
    /\ UNCHANGED <<pdb_content, pc, info, simple_state, log, request, response>>
    /\ UNCHANGED vtk

\* Lines 17-26: one turn of the loop, on the locals of the thread.
Iterate(t) ==
    /\ frame[t] # NoFrame
    /\ frame[t].at = "line17"
    /\ frame[t].i <= Len(frame[t].lines)
    /\ frame[t].acc.exc = NoExc
    /\ frame' = [frame EXCEPT ![t] =
                    [@ EXCEPT !.acc = loop_body(frame[t].acc, frame[t].lines[frame[t].i]),
                              !.i = @ + 1]]
    /\ UNCHANGED <<pdb_content, pc, info, simple_state, log, request, response>>
    /\ UNCHANGED vtk

\* Lines 28-32: the loop is over and the dictionary is returned; an exception
\* out of the loop ends the call without one.
Return(t) ==
    /\ frame[t] # NoFrame
    /\ frame[t].at = "line17"
    /\ frame[t].i > Len(frame[t].lines) \/ frame[t].acc.exc # NoExc
    /\ log' = Append(log,
                 [by |-> "parse_pdb_info", text |-> frame[t].pdb_content,
                  value |-> IF frame[t].acc.exc = NoExc
                            THEN [atoms |-> frame[t].acc.atoms,
                                  residues |-> Cardinality(frame[t].acc.residues),
                                  chains |-> Cardinality(frame[t].acc.chains)]
                            ELSE NoInfo])
    /\ frame' = [frame EXCEPT ![t] = NoFrame]
    /\ UNCHANGED <<pdb_content, pc, info, simple_state, request, response>>
    /\ UNCHANGED vtk

\* A click on "Load Example PDB" while the threads run.
ReloadBetween ==
    /\ Len(log) + Cardinality(Running) < MaxCalls
    /\ \E text \in CallTexts :
          /\ simple_state' = load_example_pdb(simple_state, text)
          /\ log' = Append(log, [by |-> "load_example_pdb", text |-> text,
                                 value |-> simple_state'.molecule_info])
    /\ UNCHANGED <<pdb_content, pc, info, request, response, frame>>
    /\ UNCHANGED vtk

NextThreads ==
    \/ \E t \in Threads : Enter(t) \/ Iterate(t) \/ Return(t)
    \/ ReloadBetween

SpecThreads == InitThreads /\ [][NextThreads]_vars

-----------------------------------------------------------------------------
\* The VTK viewer (app.py).  A file's content stands for the molecule
\* vtkPDBReader reads out of it: the atom types and residue numbers of its
\* points, and the number of its bonds.  Every handler runs to completion;
\* when it ends trame calls the @state.change callbacks of the fields whose
\* value is not the one they had when it began.

MaxEvents == 2

Glycine == [atom_types |-> <<"N">>, residue |-> <<1>>, bonds |-> 0]

Water == [atom_types |-> <<"O", "H">>, residue |-> <<2, 2>>, bonds |-> 1]

Crambin == [atom_types |-> <<"N", "C", "S">>, residue |-> <<1, 1, 3>>, bonds |-> 2]

\* str(Path("./temp") / name)
filepath(name) ==
    CASE name = "a.pdb" -> "temp/a.pdb"
      [] name = "b.pdb" -> "temp/b.pdb"
      [] name = "default.pdb" -> "temp/default.pdb"

\* with open(filepath, "wb") as f: f.write(content)
write(dir, path, content) ==
    [p \in DOMAIN dir \cup {path} |-> IF p = path THEN content ELSE dir[p]]

\* vtkPDBReader.SetFileName: the reader is marked modified only when the
\* name is a new one.
SetFileName(reader, name) ==
    IF reader.FileName = name THEN reader
    ELSE [reader EXCEPT !.FileName = name, !.modified = TRUE]

\* vtkPDBReader.Update: a modified reader reads its file again, any other
\* keeps the output of its last read.
Update(reader, dir) ==
    IF ~reader.modified THEN reader
    ELSE [reader EXCEPT !.modified = FALSE,
                        !.output = IF reader.FileName \in DOMAIN dir
                                   THEN dir[reader.FileName] ELSE NoOutput]

create_ball_stick_visualization(reader) ==
    [mapper |-> "vtkMoleculeMapper", input |-> reader.output, color_array |-> "none"]

create_ribbon_visualization(reader) ==
    [mapper |-> "vtkPolyDataMapper", input |-> reader.output, color_array |-> "none"]

apply_color_mapping(actor, reader, color_mapping) ==
    IF color_mapping = "atom" THEN actor
    ELSE IF color_mapping \in {"bfactor", "residue"}
         THEN IF actor.mapper = "vtkPolyDataMapper"
              THEN [actor EXCEPT !.color_array = color_mapping]
              ELSE [mapper |-> "vtkPolyDataMapper", input |-> reader.output,
                    color_array |-> color_mapping]
         ELSE actor

\* The counts and the distinct values of the dictionary; unique_residues and
\* unique_atoms are sorted lists of distinct values, here the sets of them.
extract_molecule_data(reader) ==
    LET output == reader.output
    IN  [num_atoms |-> Len(output.atom_types),
         num_bonds |-> output.bonds,
         unique_residues |-> {output.residue[i] : i \in DOMAIN output.residue},
         unique_atoms |-> {output.atom_types[i] : i \in DOMAIN output.atom_types}]

\* The lines of the try block at which a call may raise; 0 is a run in
\* which none does.
FailLines == {0, 75, 84, 90, 94}

\* f"Error: {str(e)}", of the exception raised at a line
Error(line) ==
    CASE line = 75 -> "Error: pdb_reader.Update"
      [] line = 84 -> "Error: apply_color_mapping"
      [] line = 90 -> "Error: extract_molecule_data"
      [] line = 94 -> "Error: ctrl.view_update"

\* The statement at a line is done in a run that fails at fail.
Done(line, fail) == fail = 0 \/ line < fail

\* update_visualization on the viewer v (its state, renderer, pdb_reader and
\* temp), the call at line fail raising.
update_visualization(v, fail) ==
    IF v.state.active_file = None THEN v
    ELSE LET named == SetFileName(v.pdb_reader, v.state.active_file)
             reader == IF Done(75, fail) THEN Update(named, v.temp) ELSE named
             styled == IF v.state.view_style = "ball_stick"
                       THEN create_ball_stick_visualization(reader)
                       ELSE create_ribbon_visualization(reader)
             actor == apply_color_mapping(styled, reader, v.state.color_mapping)
         IN  [v EXCEPT
                !.pdb_reader = reader,
                !.renderer = IF Done(87, fail) THEN <<actor>> ELSE <<>>,
                !.state.molecule_info = IF Done(90, fail)
                                        THEN extract_molecule_data(reader)
                                        ELSE v.state.molecule_info,
                !.state.hover_info = IF fail = 0 THEN v.state.hover_info
                                     ELSE Error(fail)]

\* update_view_style, update_color_style, update_active_file: what trame
\* calls at the end of a handler that began with the viewer as before.
state_change(before, v, fail) ==
    IF \/ v.state.view_style # before.state.view_style
       \/ v.state.color_mapping # before.state.color_mapping
       \/ v.state.active_file # before.state.active_file
    THEN update_visualization(v, fail)
    ELSE v

\* load_default_pdb once urlretrieve has stored content in temp/default.pdb.
load_default_pdb(v, content, fail) ==
    LET default_pdb_path == filepath("default.pdb")
        saved == [v EXCEPT !.temp = write(v.temp, default_pdb_path, content)]
        listed == [saved EXCEPT
                     !.state.active_file = default_pdb_path,
                     !.state.pdb_files = Append(saved.state.pdb_files,
                                                [name |-> "Default (1CRN)",
                                                 path |-> default_pdb_path])]
    IN  update_visualization(listed, fail)

\* Mutant of upload_for_body: the file is made the active one before it is
\* saved and listed.
upload_for_body_active_first(v, file, raises) ==
    LET path == filepath(file.name)
    IN  IF raises THEN [v EXCEPT !.state.active_file = path]
        ELSE [v EXCEPT
                !.temp = write(v.temp, path, file.content),
                !.state.pdb_files = Append(v.state.pdb_files,
                                           [name |-> file.name, path |-> path]),
                !.state.active_file = path]

\* One turn of the loop of handle_file_upload; raises: open or write raises,
\* which ends the handler there.
upload_for_body(v, file, raises) ==
    LET path == filepath(file.name)
    IN  IF raises THEN v
        ELSE [v EXCEPT
                !.temp = write(v.temp, path, file.content),
                !.state.pdb_files = Append(v.state.pdb_files,
                                           [name |-> file.name, path |-> path]),
                !.state.active_file = path]

RECURSIVE upload_for_loop(_, _, _, _)
upload_for_loop(v, files, i, raises_at) ==
    IF i > Len(files) THEN v
    ELSE IF i = raises_at THEN upload_for_body(v, files[i], TRUE)
         ELSE upload_for_loop(upload_for_body(v, files[i], FALSE), files, i + 1, raises_at)

\* handle_file_upload(event); raises_at is the turn of the loop in which
\* saving the file raises, 0 when none does.
handle_file_upload(v, event) ==
    IF event.files = <<>> THEN v
    ELSE upload_for_loop(v, event.files, 1, event.raises_at)

File(name, content) == [name |-> name, content |-> content]

FileLists ==
    { <<>>,
      <<File("a.pdb", Glycine)>>,
      <<File("a.pdb", Water)>>,
      <<File("b.pdb", Water)>>,
      <<File("default.pdb", Glycine)>>,
      <<File("a.pdb", Glycine), File("b.pdb", Water)>>,
      <<File("b.pdb", Glycine), File("a.pdb", Water)>> }

Events ==
    { [files |-> fs, raises_at |-> k] : fs \in FileLists, k \in 0..2 } \ 
    { e \in [files : FileLists, raises_at : 0..2] : e.raises_at > Len(e.files) }

Downloads == {Crambin}

Viewer == [state |-> state, renderer |-> renderer, pdb_reader |-> pdb_reader,
           temp |-> temp]

Becomes(v) ==
    /\ state' = v.state
    /\ renderer' = v.renderer
    /\ pdb_reader' = v.pdb_reader
    /\ temp' = v.temp

\* What the log keeps of a handler that ran: its name and input, whether it
\* raised, and the run of update_visualization it led to, if any.
Ran(by, input, raised, run) ==
    [by |-> by, input |-> input, raised |-> raised, run |-> run]

NoRun == [ran |-> FALSE, fail |-> 0]

InitViewer ==
    /\ VtkSetup
    /\ pdb_content = <<>>
    /\ pc = "call"
    /\ info = NoInfo
    /\ simple_state = [file_name |-> "", pdb_content |-> <<>>,
                       molecule_info |-> [atoms |-> 0, residues |-> 0, chains |-> 0]]
    /\ log = <<>>
    /\ request = NoRequest
    /\ response = NoResponse
    /\ frame = NoFrame

\* on_server_ready: load_default_pdb; the download raising leaves the viewer
\* as it was.
LoadDefaultPdb ==
    /\ Len(log) < MaxEvents
    /\ \/ /\ UNCHANGED vtk
          /\ log' = Append(log, Ran("load_default_pdb", "urlretrieve", TRUE, NoRun))
       \/ \E content \in Downloads, fail \in FailLines :
            /\ Becomes(load_default_pdb(Viewer, content, fail))
            /\ log' = Append(log, Ran("load_default_pdb", content, FALSE,
                                      [ran |-> TRUE, fail |-> fail]))
    /\ UNCHANGED <<pdb_content, pc, info, simple_state, request, response, frame>>

\* VFileInput on_change: handle_file_upload, then the callbacks of the
\* fields it changed.  After a handler that raised they are called or not.
HandleFileUpload ==
    /\ Len(log) < MaxEvents
    /\ \E event \in Events, fail \in FailLines, called \in BOOLEAN :
         LET raised == event.raises_at # 0
             v == handle_file_upload(Viewer, event)
             changed == v.state.active_file # state.active_file
             runs == changed /\ (raised => called)
         IN  /\ raised \/ called
             /\ runs \/ fail = 0
             /\ Becomes(IF runs THEN state_change(Viewer, v, fail) ELSE v)
             /\ log' = Append(log, Ran("handle_file_upload", event, raised,
                                       [ran |-> runs, fail |-> fail]))
    /\ UNCHANGED <<pdb_content, pc, info, simple_state, request, response, frame>>

\* The three VSelect of the drawer: the client sets view_style, color_mapping
\* or active_file to another of the items, and the callback runs.
Select ==
    /\ Len(log) < MaxEvents
    /\ \E field \in {"view_style", "color_mapping", "active_file"},
          fail \in FailLines :
         LET items == CASE field = "view_style" -> {"ball_stick", "ribbon"}
                        [] field = "color_mapping" -> {"atom", "bfactor", "residue"}
                        [] field = "active_file" ->
                             {state.pdb_files[i].path : i \in DOMAIN state.pdb_files}
         IN  \E value \in items \ {state[field]} :
               LET v == [Viewer EXCEPT !.state[field] = value]
               IN  /\ v.state.active_file # None \/ fail = 0
                   /\ Becomes(state_change(Viewer, v, fail))
                   /\ log' = Append(log, Ran("select", <<field, value>>, FALSE,
                                             [ran |-> TRUE, fail |-> fail]))
    /\ UNCHANGED <<pdb_content, pc, info, simple_state, request, response, frame>>

NextViewer == LoadDefaultPdb \/ HandleFileUpload \/ Select

SpecViewer == InitViewer /\ [][NextViewer]_vars

-----------------------------------------------------------------------------
(* What the properties below speak of.                                     *)

\* The lines of the text at hand.
TextLines == splitlines(pdb_content)

\* A text with the lines ls, and what parse_pdb_info returns for such a text.
AsText(ls) == Join(ls, <<"\n">>, FALSE)
Summary(ls) == parse_pdb_info(AsText(ls)).value

Without(ls, j) == [i \in 1..(Len(ls) - 1) |-> IF i < j THEN ls[i] ELSE ls[i + 1]]
WithLine(ls, j, line) == [ls EXCEPT ![j] = line]
OneMoreAtom(r) == [r EXCEPT !.atoms = @ + 1]
Zero == [atoms |-> 0, residues |-> 0, chains |-> 0]

\* The line begins with the four characters ATOM or the six characters HETATM.
BeginsWithToken(line) ==
    \/ Len(line) >= 4 /\ SubSeq(line, 1, 4) = ATOM
    \/ Len(line) >= 6 /\ SubSeq(line, 1, 6) = HETATM

\* Columns 1-6 of the line, as far as it has them, without trailing blanks.
RecordName(line) ==
    LET name == Slice(line, 0, 6)
        keep == {i \in 1..Len(name) : name[i] # " "}
    IN  IF keep = {} THEN <<>>
        ELSE SubSeq(name, 1, CHOOSE b \in keep : \A j \in keep : b >= j)

\* The first six characters of the line are the token ATOM or the token HETATM.
NameIsToken(line) == RecordName(line) = ATOM \/ RecordName(line) = HETATM

Count(ls, Test(_)) == Cardinality({i \in 1..Len(ls) : Test(ls[i])})

Loaded == simple_state.file_name # ""

Ordered(r) == r.chains <= r.residues /\ r.residues <= r.atoms

\* C1: the summarizer's result satisfies chain_count <= residue_count <=
\* atom_count for every text, in both viewers, the texts without a
\* qualifying line included.
C1_CountsOrdered ==
    /\ pc = "returned" => Ordered(info)
    /\ Ordered(simple_state.molecule_info)
C1_Witness ==
    /\ pc = "returned" /\ Loaded
    /\ info.chains >= 1 /\ info.chains < info.residues
    /\ simple_state.molecule_info = info

\* C2 as stated: a line qualifies iff its first six characters are the token
\* ATOM or HETATM, and atom_count is the number of such lines.
C2_SixCharacterName ==
    LET ls == TextLines
    IN
        pc = "returned" => info.atoms = Count(ls, NameIsToken)

\* C2 amended: a line qualifies iff it begins with the four characters ATOM
\* or the six characters HETATM, whatever follows them; atom_count is the
\* number of such lines, and every other line changes none of the counts.
C2_PrefixDecides ==
    LET ls == TextLines
    IN
        /\ pc = "returned" =>
              /\ info.atoms = Count(ls, BeginsWithToken)
              /\ info = Summary(SelectSeq(ls, BeginsWithToken))
        /\ Loaded => simple_state.molecule_info.atoms = Count(ls, BeginsWithToken)
C2_Witness ==
    LET ls == TextLines
    IN
        /\ pc = "returned" /\ Loaded
        /\ \E i, j \in 1..Len(ls) :
              /\ BeginsWithToken(ls[i]) /\ ~NameIsToken(ls[i])
              /\ ~BeginsWithToken(ls[j]) /\ Len(ls[j]) >= 27
        /\ info.atoms = 1

\* C3: for the empty text and for a text none of whose lines begins with
\* ATOM or HETATM, the result is atoms = 0, residues = 0, chains = 0.
C3_NoRecordAllZero ==
    LET ls == TextLines
    IN
        (pc = "returned" /\ \A i \in 1..Len(ls) : ~BeginsWithToken(ls[i]))
            => info = Zero
C3_Witness ==
    LET ls == TextLines
    IN
        /\ pc = "returned"
        /\ Len(ls) >= 2
        /\ \A i \in 1..Len(ls) : ~BeginsWithToken(ls[i])
        /\ \E i \in 1..Len(ls) : Len(ls[i]) >= 27

\* Columns 22-27 of the line, as far as it has them.
Columns22To27(line) == Slice(line, 21, 27)

\* A record that keeps of the line its columns 22-27 alone.
ColumnsOnly(line) == ATOM__ \o Rep(" ", 15) \o Columns22To27(line)

SameResiduesAndChains(r, q) == r.residues = q.residues /\ r.chains = q.chains

\* C4: residue_count and chain_count depend only on columns 22-27 of the
\* qualifying lines: they are unchanged when every qualifying line is
\* replaced by a record with the same columns 22-27 and nothing else of it;
\* and two qualifying lines that have these columns and agree on them
\* contribute together what one of them contributes, which is 1 to
\* residue_count and 1 to chain_count.
C4_OnlyColumns22To27 ==
    LET ls == TextLines
    IN
        pc = "returned" =>
            LET records == SelectSeq(ls, BeginsWithToken)
            IN  /\ SameResiduesAndChains(info,
                       Summary([i \in 1..Len(records) |-> ColumnsOnly(records[i])]))
                /\ \A i, j \in 1..Len(records) :
                      ( /\ i < j
                        /\ Len(records[i]) >= 22 /\ Len(records[j]) >= 22
                        /\ Columns22To27(records[i]) = Columns22To27(records[j]) )
                      => /\ SameResiduesAndChains(info, Summary(Without(records, j)))
                         /\ Len(records) = 2 => info.residues = 1 /\ info.chains = 1
C4_Witness ==
    LET ls == TextLines
    IN
        /\ pc = "returned"
        /\ Len(ls) = 2
        /\ BeginsWithToken(ls[1]) /\ BeginsWithToken(ls[2])
        /\ Len(ls[1]) >= 27
        /\ Columns22To27(ls[1]) = Columns22To27(ls[2])
        /\ Slice(ls[1], 6, 21) # Slice(ls[2], 6, 21)
        /\ info.residues = 1 /\ info.chains = 1

\* C5: two full-length qualifying lines with the same residue-sequence field
\* (columns 23-27) and different chain identifiers (column 22) contribute 2
\* distinct residue keys and 2 distinct chain identifiers.
C5_ChainDistinguishesResidues ==
    LET ls == TextLines
    IN
        pc = "returned" =>
            \A i, j \in 1..Len(ls) :
                ( /\ BeginsWithToken(ls[i]) /\ BeginsWithToken(ls[j])
                  /\ Len(ls[i]) >= 27 /\ Len(ls[j]) >= 27
                  /\ Slice(ls[i], 22, 27) = Slice(ls[j], 22, 27)
                  /\ ls[i][22] # ls[j][22] )
                => /\ info.residues >= 2 /\ info.chains >= 2
                   /\ Len(ls) = 2 => info = [atoms |-> 2, residues |-> 2, chains |-> 2]
C5_Witness ==
    LET ls == TextLines
    IN
        /\ pc = "returned"
        /\ Len(ls) = 2
        /\ BeginsWithToken(ls[1]) /\ BeginsWithToken(ls[2])
        /\ Len(ls[1]) >= 27 /\ Len(ls[2]) >= 27
        /\ Slice(ls[1], 22, 27) = Slice(ls[2], 22, 27)
        /\ ls[1][22] # ls[2][22]
        /\ info.chains = 2

\* The line with the record name ATOM of its columns 1-6 replaced by HETATM,
\* and the reverse.
AtomToHetatm(line) ==
    IF RecordName(line) = ATOM THEN HETATM \o Slice(line, 6, Len(line)) ELSE line
HetatmToAtom(line) ==
    IF RecordName(line) = HETATM THEN ATOM__ \o Slice(line, 6, Len(line)) ELSE line

\* C6: replacing the record name ATOM by HETATM, or HETATM by ATOM, in any
\* one line or in all lines, leaves the three statistics unchanged.
C6_RecordNamesInterchangeable ==
    LET ls == TextLines
    IN
        pc = "returned" =>
            /\ info = Summary([i \in 1..Len(ls) |-> AtomToHetatm(ls[i])])
            /\ info = Summary([i \in 1..Len(ls) |-> HetatmToAtom(ls[i])])
            /\ \A j \in 1..Len(ls) :
                  /\ info = Summary(WithLine(ls, j, AtomToHetatm(ls[j])))
                  /\ info = Summary(WithLine(ls, j, HetatmToAtom(ls[j])))
C6_Witness ==
    LET ls == TextLines
    IN
        /\ pc = "returned"
        /\ \E i, j \in 1..Len(ls) :
              /\ RecordName(ls[i]) = ATOM /\ Len(ls[i]) >= 27
              /\ RecordName(ls[j]) = HETATM /\ Len(ls[j]) >= 22
        /\ info.atoms = 2

\* C7: a qualifying line shorter than 22 characters increments atom_count by
\* exactly 1, adds nothing to the residue-key set or to the chain set, and
\* raises no error: the result is that of the text without the line, with
\* one atom more.
C7_ShortRecordCountsAsAtomOnly ==
    LET ls == TextLines
    IN
        /\ (pc # "call" /\ \E j \in 1..Len(ls) :
                              BeginsWithToken(ls[j]) /\ Len(ls[j]) < 22)
           => /\ pc = "returned"
              /\ \A j \in 1..Len(ls) :
                    (BeginsWithToken(ls[j]) /\ Len(ls[j]) < 22)
                    => info = OneMoreAtom(Summary(Without(ls, j)))
        /\ Loaded =>
              \A j \in 1..Len(ls) :
                  (BeginsWithToken(ls[j]) /\ Len(ls[j]) < 22)
                  => simple_state.molecule_info = OneMoreAtom(Summary(Without(ls, j)))
C7_Witness ==
    LET ls == TextLines
    IN
        /\ pc = "returned" /\ Loaded
        /\ \E j \in 1..Len(ls) :
              /\ NameIsToken(ls[j]) /\ Len(ls[j]) = 21
        /\ info.residues = 1 /\ info.atoms = 2

LongEnough6(line) == Len(line) >= 6
LongEnough4(line) == Len(line) >= 4

\* C8 as stated: a line shorter than 6 characters never matches the prefix
\* test and is excluded from the three counts.
C8_ShorterThanSixExcluded ==
    LET ls == TextLines
    IN
        pc = "returned" => info = Summary(SelectSeq(ls, LongEnough6))

\* C8 amended: a line shorter than 4 characters never matches the prefix
\* test and is excluded from the three counts; a line of 4 or 5 characters
\* matches exactly when it begins with ATOM, and then counts as one atom and
\* adds nothing to residue_count or chain_count.
C8_ShorterThanFourExcluded ==
    LET ls == TextLines
    IN
        pc = "returned" =>
            /\ info = Summary(SelectSeq(ls, LongEnough4))
            /\ \A j \in 1..Len(ls) :
                  Len(ls[j]) \in {4, 5} =>
                      info = IF SubSeq(ls[j], 1, 4) = ATOM
                             THEN OneMoreAtom(Summary(Without(ls, j)))
                             ELSE Summary(Without(ls, j))
C8_Witness ==
    LET ls == TextLines
    IN
        /\ pc = "returned"
        /\ \E j, k \in 1..Len(ls) :
              /\ ls[j] = ATOM
              /\ Len(ls[k]) \in 1..3
        /\ info = [atoms |-> 1, residues |-> 0, chains |-> 0]

PartialSpan(line) == BeginsWithToken(line) /\ Len(line) \in 22..26

\* The line filled up with blanks to the end of column 27.
PaddedTo27(line) == line \o Rep(" ", 27 - Len(line))

\* C9 as stated: a qualifying line of 22 to 26 characters is a slicing
\* failure: it counts as an atom and is inserted into neither set.
C9_PartialSpanNotInserted ==
    LET ls == TextLines
    IN
        pc = "returned" =>
            \A j \in 1..Len(ls) :
                PartialSpan(ls[j]) => info = OneMoreAtom(Summary(Without(ls, j)))

\* C9 amended: a qualifying line of 22 to 26 characters is no slicing
\* failure: atom_count increments and the line is inserted into both sets,
\* with the chain identifier of column 22 and the residue field read from
\* the part of columns 23-27 the line has, as if blanks filled the line up
\* to column 27.
C9_PartialSpanInserted ==
    LET ls == TextLines
    IN
        pc = "returned" =>
            \A j \in 1..Len(ls) :
                PartialSpan(ls[j]) =>
                    /\ info = Summary(WithLine(ls, j, PaddedTo27(ls[j])))
                    /\ info.residues >= 1 /\ info.chains >= 1
                    /\ Len(ls) = 1 => info = [atoms |-> 1, residues |-> 1, chains |-> 1]
C9_Witness ==
    LET ls == TextLines
    IN
        /\ pc = "returned"
        /\ Len(ls) = 1
        /\ PartialSpan(ls[1])
        /\ info = [atoms |-> 1, residues |-> 1, chains |-> 1]

\* C10: the summarizer is total: for every text, however malformed or
\* truncated its lines, the call returns a result and raises nothing.
C10_NeverRaises ==
    /\ pc # "raised"
    /\ pc = "returned" => info.atoms >= 0 /\ info.residues >= 0 /\ info.chains >= 0
C10_Witness ==
    LET ls == TextLines
    IN
        /\ pc = "returned"
        /\ Len(ls) >= 2
        /\ \A j \in 1..Len(ls) :
              BeginsWithToken(ls[j]) /\ Len(ls[j]) < 22

Reorderings(n) == {p \in [1..n -> 1..n] : \A a, b \in 1..n : p[a] = p[b] => a = b}

\* The three counts the loop and the return statement give for a list of
\* lines.
CountsOfLines(lines) ==
    LET final == for_loop([atoms |-> 0, residues |-> {}, chains |-> {}, exc |-> NoExc],
                          lines, 1)
    IN  [atoms |-> final.atoms,
         residues |-> Cardinality(final.residues),
         chains |-> Cardinality(final.chains)]

\* C12: the result does not depend on the order of the lines: every
\* permutation of the lines of a text gives the same three counts.
C12_OrderOfLinesIrrelevant ==
    LET ls == TextLines
    IN
        pc = "returned" =>
            \A p \in Reorderings(Len(ls)) :
                info = CountsOfLines([i \in 1..Len(ls) |-> ls[p[i]]])
C12_Witness ==
    LET ls == TextLines
    IN
        /\ pc = "returned"
        /\ Len(ls) = 2
        /\ ~BeginsWithToken(ls[1]) /\ Len(ls[1]) > 0
        /\ BeginsWithToken(ls[2]) /\ Len(ls[2]) >= 27
        /\ info = [atoms |-> 1, residues |-> 1, chains |-> 1]

\* The lines of a text that is split at "\n" and at "\r\n" and nowhere else,
\* a terminator at the end of the text opening no further line.
RECURSIVE PlainLines(_)
PlainLines(s) ==
    IF s = <<>> THEN <<>>
    ELSE LET brk == {i \in 1..Len(s) : s[i] = "\n"}
         IN  IF brk = {} THEN <<s>>
             ELSE LET i == CHOOSE k \in brk : \A j \in brk : k <= j
                      last == IF i > 1 /\ s[i - 1] = "\r" THEN i - 2 ELSE i - 1
                  IN  <<SubSeq(s, 1, last)>> \o PlainLines(SubSeq(s, i + 1, Len(s)))

\* C13: a text whose lines end in "\r\n" gives the same result as the same
\* lines ending in "\n", and a terminator after the last line adds no record
\* and changes no count.
C13_TerminatorsIrrelevant ==
    LET ls == PlainLines(pdb_content)
    IN
        pc = "returned" =>
            \A t \in Terminators, trailing \in BOOLEAN :
                info = parse_pdb_info(Join(ls, t, trailing)).value
C13_Witness ==
    LET ls == PlainLines(pdb_content)
        n == Len(pdb_content)
    IN
        /\ pc = "returned"
        /\ Len(ls) = 2
        /\ n > 2 /\ pdb_content[n - 1] = "\r" /\ pdb_content[n] = "\n"
        /\ Len(ls[1]) = 21 /\ BeginsWithToken(ls[1])
        /\ info.atoms = 2 /\ info.chains = 1

\* The lines whose fields the try block reads to the end: a qualifying line
\* that has a character at column 22.
FieldsRead(line) == BeginsWithToken(line) /\ Len(line) >= 22

\* C20: the chain count is the number of distinct characters at column 22
\* among the qualifying lines whose fields were read; the character is not
\* trimmed, so a space at column 22 is a chain id of its own.
C20_ChainsAreColumn22Characters ==
    LET ls == TextLines
    IN
        pc = "returned" =>
            info.chains =
                Cardinality({ls[i][22] : i \in {k \in 1..Len(ls) : FieldsRead(ls[k])}})
C20_Witness ==
    LET ls == TextLines
    IN
        /\ pc = "returned"
        /\ Len(ls) = 2
        /\ FieldsRead(ls[1]) /\ FieldsRead(ls[2])
        /\ ls[1][22] = " " /\ ls[2][22] = "A"
        /\ info.chains = 2

\* An upload that passes every check of the upload path: a file part, a file
\* name that is not empty and ends with .pdb in any case, bytes that are
\* UTF-8, and ATOM or HETATM somewhere in the decoded text.
PassesChecks(u) ==
    /\ u.has_file
    /\ u.filename # <<>>
    /\ endswith(lower(u.filename), <<".", "p", "d", "b">>)
    /\ decode(u.data).exc = NoExc
    /\ \/ contains(decode(u.data).value, ATOM)
       \/ contains(decode(u.data).value, HETATM)

Rejection(r) == r.status \in {400, 500} /\ DOMAIN r.body = {"error"}

\* C14: on the upload path parse_pdb_info is invoked if and only if the
\* request has a file part, the file name is not empty and ends with .pdb
\* compared case-insensitively, the bytes decode as UTF-8 and the decoded
\* text contains ATOM or HETATM; every failed check gives a rejection
\* response, and no summarization happens for that request.
C14_SummarizedIffChecksPass ==
    [][(request'.n # request.n /\ request'.path = "/upload_pdb") =>
          LET u == request'.upload
          IN  IF PassesChecks(u)
              THEN /\ Len(log') = Len(log) + 1
                   /\ SubSeq(log', 1, Len(log)) = log
                   /\ log'[Len(log')].by = "parse_pdb_info"
                   /\ log'[Len(log')].text = decode(u.data).value
                   /\ ~Rejection(response')
              ELSE /\ log' = log
                   /\ Rejection(response')]_vars
C14_Witness ==
    /\ request.n = 2
    /\ request.path = "/upload_pdb"
    /\ PassesChecks(request.upload)
    /\ request.upload.filename = <<"A", ".", "P", "D", "B">>
    /\ response.status = 200
    /\ Len(log) = 1

\* C15: on no path that reaches the summarizer, upload or bundled example,
\* is it invoked with text that contains neither ATOM nor HETATM.
C15_NeverCalledOnTextWithoutToken ==
    \A i \in 1..Len(log) :
        contains(log[i].text, ATOM) \/ contains(log[i].text, HETATM)

\* C16: an upload that passes the checks and whose text has no qualifying
\* line (ATOM only inside a remark) gets a success response with atoms = 0,
\* not an error.
C16_NoQualifyingLineIsSuccess ==
    (/\ request.path = "/upload_pdb"
     /\ PassesChecks(request.upload)
     /\ Count(splitlines(decode(request.upload.data).value), BeginsWithToken) = 0)
        => /\ response.status = 200
           /\ DOMAIN response.body = {"info", "content"}
           /\ response.body.info.atoms = 0
C16_Witness ==
    /\ request.path = "/upload_pdb"
    /\ PassesChecks(request.upload)
    /\ decode(request.upload.data).value = <<"R", "E", "M", "A", "R", "K", " ">> \o ATOM
    /\ response.status = 200
    /\ response.body.info.atoms = 0

CountFields == {"atoms", "residues", "chains"}

RecordsProduced(handler) ==
    {log[i].value : i \in {k \in 1..Len(log) : log[k].by = handler}}

\* C18: a summary record is never mutated after it is produced: each parse
\* creates a fresh record, and the record the caller holds is at all times
\* one record as a parse produced it, replaced as a whole, never a mix of the
\* fields of two parses and never a record altered in place.
C18_RecordNeverMutated ==
    /\ simple_state.molecule_info \in
          RecordsProduced("load_example_pdb") \cup {[atoms |-> 0, residues |-> 0, chains |-> 0]}
    /\ (frame.at \in {"line87", "line91"}) =>
          frame.locals.info \in RecordsProduced("parse_pdb_info")
    /\ response.status = 200 =>
          response.body.info \in RecordsProduced("parse_pdb_info")

\* C19: summarizations that run at the same time on inputs of their own do
\* not interfere: under every interleaving each invocation yields exactly
\* the result of its own input, and a step of one leaves the locals of the
\* others and the state of the viewer as they are.
C19_EachYieldsItsOwnResult ==
    /\ [](\A i \in 1..Len(log) :
             log[i].value =
                 IF log[i].by = "parse_pdb_info"
                 THEN parse_pdb_info(log[i].text).value
                 ELSE load_example_pdb(simple_state, log[i].text).molecule_info)
    /\ [][\A t \in Threads :
             frame'[t] # frame[t] =>
                 /\ \A u \in Threads \ {t} : frame'[u] = frame[u]
                 /\ simple_state' = simple_state]_vars
C19_Witness ==
    /\ frame[1] # NoFrame /\ frame[2] # NoFrame
    /\ frame[1].i = 2 /\ Len(frame[1].lines) = 2
    /\ frame[2].i = 2 /\ Len(frame[2].lines) = 2
    /\ frame[1].pdb_content # frame[2].pdb_content
    /\ frame[1].acc.atoms = 1 /\ frame[2].acc.atoms = 1
    /\ Len(log) = 1 /\ log[1].by = "parse_pdb_info" /\ log[1].value.atoms = 2

\* The text with "\n" in the place of every other character that
\* str.splitlines() breaks a line at, the pair "\r\n" left as it is.
NewlinesOnly(text) ==
    [i \in 1..Len(text) |->
        IF text[i] \notin LineBoundaries THEN text[i]
        ELSE IF text[i] = "\r" /\ i < Len(text) /\ text[i + 1] = "\n" THEN "\r"
        ELSE "\n"]

\* C21 as stated: the text is split into lines at "\n" and "\r\n" only; a
\* lone carriage return, a form feed, a vertical tab or a Unicode line or
\* paragraph separator inside a record ends no line and changes neither
\* which lines qualify nor which columns are read.
C21_SplitAtNewlinesOnly ==
    /\ pc = "returned" => info = CountsOfLines(PlainLines(pdb_content))
    /\ Loaded => simple_state.molecule_info = CountsOfLines(PlainLines(pdb_content))

\* C21, amended: the text is split at every boundary of str.splitlines():
\* "\n", "\r\n", and also a lone "\r", "\v", "\f", "\x1c", "\x1d", "\x1e",
\* "\x85", U+2028 and U+2029; each of these inside a record ends the line
\* there, as a "\n" in its place would.
C21_SplitAtEveryBoundary ==
    LET counts == CountsOfLines(PlainLines(NewlinesOnly(pdb_content)))
    IN  /\ pc = "returned" => info = counts
        /\ Loaded => simple_state.molecule_info = counts
C21_Witness ==
    /\ pc = "returned" /\ Loaded
    /\ \E i \in 1..Len(pdb_content) : pdb_content[i] = "\\u2028"
    /\ CountsOfLines(PlainLines(pdb_content)) = [atoms |-> 0, residues |-> 0, chains |-> 0]
    /\ info = [atoms |-> 1, residues |-> 1, chains |-> 1]
    /\ simple_state.molecule_info = info

\* C22: the concatenated residue key never collides: the residue count is
\* the number of distinct pairs of the trimmed residue field and the chain
\* character among the lines inserted, the count a tuple key would give.
C22_KeyNeverCollides ==
    LET ls == TextLines
        pairs == { <<strip(Slice(ls[i], 22, 27)), ls[i][22]>> :
                     i \in {k \in 1..Len(ls) : FieldsRead(ls[k])} }
    IN  /\ pc = "returned" => info.residues = Cardinality(pairs)
        /\ Loaded => simple_state.molecule_info.residues = Cardinality(pairs)
C22_Witness ==
    LET ls == TextLines
    IN  /\ pc = "returned" /\ Loaded
        /\ Len(ls) = 2
        /\ Slice(ls[1], 22, 27) = <<" ", " ", " ", "1", "A">> /\ ls[1][22] = " "
        /\ Slice(ls[2], 22, 27) = <<" ", " ", " ", " ", "1">> /\ ls[2][22] = "A"
        /\ info.residues = 2

\* C23: both variants of the summarizer, parse_pdb_info and the loop of
\* load_example_pdb, add one to the atom count for every qualifying line,
\* before the guarded reads and whatever becomes of them, and return the
\* same three counts for every text.
C23_VariantsAgree ==
    LET ls == TextLines
        qualifying == Count(ls, BeginsWithToken)
    IN  /\ pc = "returned" => info.atoms = qualifying
        /\ Loaded => simple_state.molecule_info.atoms = qualifying
        /\ (pc = "returned" /\ Loaded) => simple_state.molecule_info = info
C23_Witness ==
    LET ls == TextLines
    IN  /\ pc = "returned" /\ Loaded
        /\ Len(ls) = 2
        /\ BeginsWithToken(ls[1]) /\ Len(ls[1]) = 4
        /\ BeginsWithToken(ls[2]) /\ Len(ls[2]) = 26
        /\ info = [atoms |-> 2, residues |-> 1, chains |-> 1]
        /\ simple_state.molecule_info = info

\* The check an upload fails first, in the order: file part, file name,
\* extension, decoding, content; "none" when it passes them all.
FirstFailingCheck(u) ==
    IF ~u.has_file THEN "file part"
    ELSE IF u.filename = <<>> THEN "file name"
    ELSE IF ~endswith(lower(u.filename), <<".", "p", "d", "b">>) THEN "extension"
    ELSE IF decode(u.data).exc # NoExc THEN "decoding"
    ELSE IF ~contains(decode(u.data).value, ATOM) /\ ~contains(decode(u.data).value, HETATM)
         THEN "content"
    ELSE "none"

\* What the response says of an upload: the check it reports as failed.
ReportedCheck(r) ==
    IF r.status = 200 THEN "none"
    ELSE IF r.status = 500 THEN "decoding"
    ELSE IF r.body.error = "No file part in the request" THEN "file part"
    ELSE IF r.body.error = "No file selected" THEN "file name"
    ELSE IF r.body.error = "Not a PDB file (must end with .pdb)" THEN "extension"
    ELSE IF r.body.error = "Invalid PDB file format (no ATOM or HETATM entries)" THEN "content"
    ELSE "other"

\* C24: upload validation reports the first failing check in the order:
\* missing file part, empty file name, extension, UTF-8 decoding, content
\* without ATOM or HETATM; a file whose name does not end in .pdb is rejected
\* for its extension whatever its bytes are, decodable or not.
C24_FirstFailingCheckReported ==
    request.path = "/upload_pdb" =>
        /\ ReportedCheck(response) = FirstFailingCheck(request.upload)
        /\ Rejection(response) <=> FirstFailingCheck(request.upload) # "none"
C24_Witness ==
    /\ request.path = "/upload_pdb"
    /\ request.upload.has_file
    /\ request.upload.filename = <<"a", ".", "p", "d">>
    /\ decode(request.upload.data).exc # NoExc
    /\ response = [status |-> 400,
                   body |-> [error |-> "Not a PDB file (must end with .pdb)"]]

\* C25: a count of at least one atom implies the content gate: every text
\* for which the summarizer returns atoms >= 1 contains ATOM or HETATM, and
\* so passes the content check of the upload path; a text that passes the
\* check may still have no atom.
C25_AtomsImplyContentGate ==
    LET accepted == contains(pdb_content, ATOM) \/ contains(pdb_content, HETATM)
    IN  /\ (pc = "returned" /\ info.atoms >= 1) => accepted
        /\ (Loaded /\ simple_state.molecule_info.atoms >= 1) => accepted
C25_Witness ==
    /\ pc = "returned" /\ Loaded
    /\ info.atoms = 1
    /\ simple_state.molecule_info.atoms = 1
    /\ contains(pdb_content, HETATM)
    /\ ~contains(pdb_content, ATOM)

\* C26: in the simple viewer, at the start and after every completed call of
\* load_example_pdb, the example file present or absent,
\* state.molecule_info is the summary of state.pdb_content, and
\* state.file_name is non-empty exactly when a load has succeeded.
C26_InfoIsSummaryOfContent ==
    /\ simple_state.molecule_info = parse_pdb_info(simple_state.pdb_content).value
    /\ simple_state.file_name # "" <=> \E i \in 1..Len(log) : log[i].found
C26_Witness ==
    /\ Len(log) = 3
    /\ log[1].found /\ log[2].found /\ ~log[3].found
    /\ log[1].value.atoms = 1 /\ log[2].value.atoms = 2
    /\ simple_state.molecule_info = [atoms |-> 2, residues |-> 2, chains |-> 2]
    /\ simple_state.file_name = "1cbs.pdb"

\* The active file of the state st is None or the path of an entry of its
\* list of files.
ActiveFileListed(st) ==
    \/ st.active_file = None
    \/ \E i \in DOMAIN st.pdb_files : st.pdb_files[i].path = st.active_file

\* The list before is the beginning of the list after.
KeepsEntries(before, after) ==
    /\ Len(before) <= Len(after)
    /\ \A i \in DOMAIN before : after[i] = before[i]

\* C27: in the VTK viewer, after any sequence of load_default_pdb and
\* handle_file_upload calls, state.active_file is None or the path of some
\* entry of state.pdb_files, and state.pdb_files never loses an entry.
C27_ActiveFileListed ==
    [][ActiveFileListed(state') /\ KeepsEntries(state.pdb_files, state'.pdb_files)]_vars
C27_Witness ==
    /\ Len(log) = 2
    /\ log[1].by = "load_default_pdb" /\ ~log[1].raised
    /\ log[2].by = "handle_file_upload" /\ log[2].raised
    /\ Len(log[2].input.files) = 2 /\ log[2].input.raises_at = 2
    /\ Len(state.pdb_files) = 2
    /\ state.active_file = filepath("a.pdb")
    /\ state.pdb_files[2].path = state.active_file

\* The metadata of the molecule an actor shows.
MetadataOf(actor) == extract_molecule_data([output |-> actor.input])

\* The handler that ran last led to a run of update_visualization in which
\* the call at some line raised.
LastRunFailed == log # <<>> /\ log[Len(log)].run.ran /\ log[Len(log)].run.fail # 0

\* C28: in the VTK viewer, whenever update_visualization has returned, the
\* renderer holds at most one actor, and if it holds one then
\* state.molecule_info is the metadata extracted from the file that actor
\* was built from; a failure at any step inside update_visualization is
\* caught, reported in state.hover_info as an Error message, and does not
\* break this consistency.
C28_ActorMatchesMoleculeInfo ==
    /\ Len(renderer) <= 1
    /\ Len(renderer) = 1 => state.molecule_info = MetadataOf(renderer[1])
    /\ LastRunFailed => state.hover_info = Error(log[Len(log)].run.fail)

\* The handler that ran last is handle_file_upload, given a list of one
\* file or more, all of them saved.
UploadDone ==
    /\ log # <<>>
    /\ log[Len(log)].by = "handle_file_upload"
    /\ log[Len(log)].input.files # <<>>
    /\ ~log[Len(log)].raised

LastUploaded == log[Len(log)].input.files[Len(log[Len(log)].input.files)]

\* C29: in the VTK viewer, every upload of a non-empty file list makes the
\* last uploaded file the active file and is followed by an
\* update_visualization run that displays that file's newly saved content,
\* including when a file with the same name was uploaded before.  (A run in
\* which a call raises is not held against the claim.)
C29_UploadIsDisplayed ==
    UploadDone =>
        /\ state.active_file = filepath(LastUploaded.name)
        /\ log[Len(log)].run.ran
        /\ log[Len(log)].run.fail = 0 =>
               /\ Len(renderer) = 1
               /\ renderer[1].input = LastUploaded.content

=============================================================================
